---------------------------- MODULE Spec2Model ----------------------------
(***************************************************************************)
(* Model of offlineimap/folder/Maildir.py: the Maildir folder backend.     *)
(*                                                                         *)
(* File names are sequences of one-character strings, so that the regular  *)
(* expressions and the string formatting of the source are computed, not   *)
(* assumed.  A path relative to the folder is a pair <<dirannex, name>>    *)
(* (os.path.join / os.path.split of a two-component relative path).        *)
(***************************************************************************)
EXTENDS Integers, Sequences, FiniteSets, TLC

(***************************************************************************)
(* Bounds of the model.                                                    *)
(***************************************************************************)
\* Number of folder operations the single worker issues after the scan.
MaxOps == 2
\* Largest sequence number _gettimeseq hands out for one timestamp.
MaxSeq == 2
\* Number of calls each thread makes to _gettimeseq (specification SpecSeq).
MaxCalls == 2

(***************************************************************************)
(* Characters.                                                             *)
(***************************************************************************)
Digits == <<"0", "1", "2", "3", "4", "5", "6", "7", "8", "9">>

\* The characters of \w in ASCII order (digits, upper case, "_", lower case).
AsciiWord ==
    Digits \o
    <<"A", "B", "C", "D", "E", "F", "G", "H", "I", "J", "K", "L", "M",
      "N", "O", "P", "Q", "R", "S", "T", "U", "V", "W", "X", "Y", "Z">> \o
    <<"_">> \o
    <<"a", "b", "c", "d", "e", "f", "g", "h", "i", "j", "k", "l", "m",
      "n", "o", "p", "q", "r", "s", "t", "u", "v", "w", "x", "y", "z">>

Range(s) == {s[i] : i \in DOMAIN s}

DigitSet == Range(Digits)

WordSet == Range(AsciiWord)

IsDigit(c) == c \in DigitSet

IsWord(c) == c \in WordSet

DigitValue == [c \in DigitSet |-> (CHOOSE i \in DOMAIN Digits : Digits[i] = c) - 1]

DigitVal(c) == DigitValue[c]

\* The rank of a character in ASCII order.
Ordinal == [c \in WordSet |-> CHOOSE i \in DOMAIN AsciiWord : AsciiWord[i] = c]

Ord(c) == Ordinal[c]

\* int(s) for a non-empty string of decimal digits.
RECURSIVE StrToInt(_)
StrToInt(s) ==
    IF Len(s) = 0 THEN 0
    ELSE 10 * StrToInt(SubSeq(s, 1, Len(s) - 1)) + DigitVal(s[Len(s)])

\* '%d' % n for n >= 0.
RECURSIVE NatToStr(_)
NatToStr(n) ==
    IF n < 10 THEN <<Digits[n + 1]>>
    ELSE NatToStr(n \div 10) \o <<Digits[(n % 10) + 1]>>

\* '%d' % n.
IntToStr(n) == IF n < 0 THEN <<"-">> \o NatToStr(-n) ELSE NatToStr(n)

\* ''.join(sorted(flags)).
RECURSIVE SortedFlags(_)
SortedFlags(F) ==
    IF F = {} THEN <<>>
    ELSE LET m == CHOOSE x \in F : \A y \in F : Ord(x) <= Ord(y)
         IN  <<m>> \o SortedFlags(F \ {m})

\* Position of the first occurrence of sub in s, 0 when there is none.
IndexOf(s, sub) ==
    LET hits == {i \in 1..(Len(s) - Len(sub) + 1) :
                     SubSeq(s, i, i + Len(sub) - 1) = sub}
    IN  IF hits = {} THEN 0 ELSE CHOOSE i \in hits : \A j \in hits : i <= j

\* Length of the longest run of characters satisfying the class, from i.
RECURSIVE RunLen(_, _, _)
RunLen(s, i, word) ==
    IF i > Len(s) THEN 0
    ELSE IF (word /\ IsWord(s[i])) \/ (~word /\ IsDigit(s[i]))
         THEN 1 + RunLen(s, i + 1, word)
         ELSE 0

\* str.replace(old, new) for single characters.
ReplaceChar(s, old, new) == [i \in DOMAIN s |-> IF s[i] = old THEN new ELSE s[i]]

(***************************************************************************)
(* Configuration and environment of one folder object.                     *)
(***************************************************************************)
\* self.infosep: ':' unless maildir-windows-compatible is set.
InfoSep == ":"

\* self._foldermd5, the hex digest of the folder's visible name (shortened).
FolderMd5 == <<"c", "0">>

\* os.getpid() and socket.gethostname().
Pid == 7

Hostname == <<"h">>

PathSep == "/"

\* self.sep_subst.
SepSubst == IF PathSep = "-" THEN "_" ELSE "-"

UidMarker == <<",", "U", "=">>

Fmd5Marker == <<",", "F", "M", "D", "5", "=">>

InfoMarker == <<InfoSep, "2", ",">>

None == [some |-> FALSE, val |-> 0]

Some(v) == [some |-> TRUE, val |-> v]

(***************************************************************************)
(* The regular expressions.                                                *)
(***************************************************************************)
\* re_uidmatch = ',U=(\d+)', search: the first ",U=" followed by a digit.
UidSearch(name) ==
    LET hits == {i \in 1..(Len(name) - 3) :
                     /\ SubSeq(name, i, i + 2) = UidMarker
                     /\ IsDigit(name[i + 3])}
    IN  IF hits = {} THEN None
        ELSE LET i == CHOOSE k \in hits : \A j \in hits : k <= j
                 n == RunLen(name, i + 3, FALSE)
             IN  Some(StrToInt(SubSeq(name, i + 3, i + 2 + n)))

\* re_timestampmatch = '(\d+)', search: the first run of digits.
TimestampSearch(name) ==
    LET hits == {i \in DOMAIN name : IsDigit(name[i])}
    IN  IF hits = {} THEN None
        ELSE LET i == CHOOSE k \in hits : \A j \in hits : k <= j
                 n == RunLen(name, i, FALSE)
             IN  Some(StrToInt(SubSeq(name, i, i + n - 1)))

\* self.re_flagmatch = '<infosep>2,(\w*)', search: [start, text of the match].
FlagSearch(name) ==
    LET i == IndexOf(name, InfoMarker)
    IN  IF i = 0 THEN [found |-> FALSE, group |-> <<>>, letters |-> <<>>]
        ELSE LET n == RunLen(name, i + 3, TRUE)
             IN  [found |-> TRUE,
                  group |-> SubSeq(name, i, i + 2 + n),
                  letters |-> SubSeq(name, i + 3, i + 2 + n)]

\* self.re_prefixmatch = '([^<infosep>,]*)', match: up to the first ':' or ','.
PrefixMatch(name) ==
    LET stops == {i \in DOMAIN name : name[i] \in {InfoSep, ","}}
    IN  IF stops = {} THEN name
        ELSE SubSeq(name, 1, (CHOOSE i \in stops : \A j \in stops : i <= j) - 1)

(***************************************************************************)
(* MaildirFolder._iswithintime, _parse_filename, new_message_filename.     *)
(***************************************************************************)
\* date is time.mktime(date), in seconds.
IsWithinTime(messagename, date) ==
    LET t == TimestampSearch(messagename)
    IN  IF ~t.some THEN TRUE
        ELSE IF t.val < date THEN FALSE ELSE TRUE

ParseFilename(filename) ==
    LET foldermatch == IndexOf(filename, Fmd5Marker \o FolderMd5) # 0
        flagmatch == FlagSearch(filename)
    IN  [prefix |-> PrefixMatch(filename),
         uid |-> IF foldermatch THEN UidSearch(filename) ELSE None,
         fmd5 |-> None,
         flags |-> IF flagmatch.found THEN Range(flagmatch.letters) ELSE {}]

\* Variant: the name is written without the folder's fingerprint.
NewMessageFilenameNoFmd5(uid, flags, timeval, timeseq) ==
    IntToStr(timeval) \o <<"_">> \o IntToStr(timeseq) \o <<".">> \o
    IntToStr(Pid) \o <<".">> \o Hostname \o
    UidMarker \o IntToStr(uid) \o InfoMarker \o SortedFlags(flags)

\* The name for (timeval, timeseq) as _gettimeseq returned them.
NewMessageFilename(uid, flags, timeval, timeseq) ==
    ReplaceChar(
        IntToStr(timeval) \o <<"_">> \o IntToStr(timeseq) \o <<".">> \o
        IntToStr(Pid) \o <<".">> \o Hostname \o
        UidMarker \o IntToStr(uid) \o Fmd5Marker \o FolderMd5 \o
        InfoMarker \o SortedFlags(flags),
        PathSep, SepSubst)

(***************************************************************************)
(* _gettimeseq, as one step of a caller that holds timelock throughout.    *)
(***************************************************************************)
TimeSeqNext(th, date) == IF date \in DOMAIN th THEN th[date] + 1 ELSE 0

TimeSeqStore(th, date) ==
    [d \in DOMAIN th \cup {date} |->
        IF d = date THEN TimeSeqNext(th, date) ELSE th[d]]

(***************************************************************************)
(* The folder on disk and the message list.                                *)
(*                                                                         *)
(* disk maps each existing path <<dirannex, name>> to its file:            *)
(* [size, written], written meaning that the whole message has been        *)
(* written and the file closed.  A message list maps a uid to              *)
(* [flags, filename], filename being a path.                               *)
(***************************************************************************)
Put(f, k, v) == [x \in DOMAIN f \cup {k} |-> IF x = k THEN v ELSE f[x]]

Drop(f, k) == [x \in DOMAIN f \ {k} |-> f[x]]

EmptyMap == [x \in {} |-> 0]

\* Variant: the file is copied, the old name stays.
RenamedCopy(d, old, new) ==
    [p \in DOMAIN d \cup {new} |-> IF p = new THEN d[old] ELSE d[p]]

\* os.rename(old, new) that succeeds: new is replaced when it exists.
Renamed(d, old, new) ==
    [p \in (DOMAIN d \ {old}) \cup {new} |-> IF p = new THEN d[old] ELSE d[p]]

\* All orders in which os.listdir may return the entries of a set.
RECURSIVE Orders(_)
Orders(S) ==
    IF S = {} THEN {<<>>}
    ELSE UNION {{<<x>> \o t : t \in Orders(S \ {x})} : x \in S}

\* Variant: tmp is listed as well.
ListingsWithTmp(d) ==
    {t \o n \o c : t \in Orders({p \in DOMAIN d : p[1] = "tmp"}),
                   n \in Orders({p \in DOMAIN d : p[1] = "new"}),
                   c \in Orders({p \in DOMAIN d : p[1] = "cur"})}

\* The list "files" of _scanfolder: the entries of new, then those of cur.
Listings(d) ==
    {n \o c : n \in Orders({p \in DOMAIN d : p[1] = "new"}),
              c \in Orders({p \in DOMAIN d : p[1] = "cur"})}

\* self.getmaxsize(): the maxsize option, unset by default.
GetMaxSize == None

(***************************************************************************)
(* MaildirFolder._scanfolder over the list files = <<(dirannex, name)>>.   *)
(* The loop state is [retval, excl, ctr]: retval, date_excludees and       *)
(* nouidcounter.                                                           *)
(***************************************************************************)
\* Variant: nouidcounter is never decremented.
ScanEntryOneCounter(d, st, filepath, maxsize, min_date, min_uid) ==
    LET filename == filepath[2]
        parsed == ParseFilename(filename)
        uidmatch == UidSearch(filename)
        fresh == (~parsed.uid.some) \/ (~uidmatch.some)
        uid == IF fresh THEN st.ctr ELSE uidmatch.val
        ctr == st.ctr
        item == [flags |-> parsed.flags, filename |-> filepath]
    IN  IF Len(filename) > 0 /\ filename[1] = "."
        THEN st
        ELSE IF maxsize.some /\ maxsize.val # 0 /\ d[filepath].size > maxsize.val
        THEN st
        ELSE IF min_uid.some /\ uid > 0 /\ uid < min_uid.val
        THEN [st EXCEPT !.ctr = ctr]
        ELSE IF min_date.some /\ ~IsWithinTime(filename, min_date.val)
        THEN [st EXCEPT !.ctr = ctr, !.excl = Put(st.excl, uid, item)]
        ELSE [st EXCEPT !.ctr = ctr, !.retval = Put(st.retval, uid, item)]

ScanEntry(d, st, filepath, maxsize, min_date, min_uid) ==
    LET filename == filepath[2]
        parsed == ParseFilename(filename)
        uidmatch == UidSearch(filename)
        fresh == (~parsed.uid.some) \/ (~uidmatch.some)
        uid == IF fresh THEN st.ctr ELSE uidmatch.val
        ctr == IF fresh THEN st.ctr - 1 ELSE st.ctr
        item == [flags |-> parsed.flags, filename |-> filepath]
    IN  IF Len(filename) > 0 /\ filename[1] = "."
        THEN st
        ELSE IF maxsize.some /\ maxsize.val # 0 /\ d[filepath].size > maxsize.val
        THEN st
        ELSE IF min_uid.some /\ uid > 0 /\ uid < min_uid.val
        THEN [st EXCEPT !.ctr = ctr]
        ELSE IF min_date.some /\ ~IsWithinTime(filename, min_date.val)
        THEN [st EXCEPT !.ctr = ctr, !.excl = Put(st.excl, uid, item)]
        ELSE [st EXCEPT !.ctr = ctr, !.retval = Put(st.retval, uid, item)]

RECURSIVE ScanLoop(_, _, _, _, _, _, _)
ScanLoop(d, files, i, st, maxsize, min_date, min_uid) ==
    IF i > Len(files) THEN st
    ELSE ScanLoop(d, files, i + 1,
                  ScanEntry(d, st, files[i], maxsize, min_date, min_uid),
                  maxsize, min_date, min_uid)

\* Variant: the largest element.
Maximum(S) == CHOOSE x \in S : \A y \in S : x >= y

\* min(positive_uids).
Minimum(S) == CHOOSE x \in S : \A y \in S : x <= y

ScanFolder(d, files, maxsize, min_date, min_uid) ==
    LET st == ScanLoop(d, files, 1,
                       [retval |-> EmptyMap, excl |-> EmptyMap, ctr |-> -1],
                       maxsize, min_date, min_uid)
        positive_uids == {uid \in DOMAIN st.retval : uid > 0}
    IN  IF min_date.some /\ positive_uids # {}
        THEN [uid \in DOMAIN st.retval \cup
                      {u \in DOMAIN st.excl : u > Minimum(positive_uids)} |->
                 IF uid \in DOMAIN st.excl /\ uid > Minimum(positive_uids)
                 THEN st.excl[uid] ELSE st.retval[uid]]
        ELSE st.retval

(***************************************************************************)
(* Inputs: the mailboxes the folder object is pointed at, and the          *)
(* arguments of the calls.                                                 *)
(***************************************************************************)
\* A name as this program writes it: prefix,U=<uid>,FMD5=<md5>:2,<flags>.
Encoded(prefix, uid, md5, letters) ==
    prefix \o UidMarker \o IntToStr(uid) \o Fmd5Marker \o md5 \o
    InfoMarker \o letters

File(dirannex, name) == <<dirannex, name>>

SmallFile == [size |-> 1, written |-> TRUE]

\* uid 1, unseen, in new.
FileA == File("new", Encoded(<<"8", ".", "a">>, 1, FolderMd5, <<>>))
\* uid 2, seen, in cur.
FileB == File("cur", Encoded(<<"8", ".", "b">>, 2, FolderMd5, <<"S">>))
\* uid 3, flagged but not seen, moved to cur by a mail reader.
FileC == File("cur", Encoded(<<"8", ".", "c">>, 3, FolderMd5, <<"F">>))
\* Delivered by another program: no marker at all.
FileD == File("new", <<"8", ".", "d">>)
\* Copied from another folder: a uid marker under a foreign fingerprint.
FileE == File("new", Encoded(<<"8", ".", "e">>, 1, <<"d", "1">>, <<"S">>))
\* A second info suffix after the first one.
FileF == File("cur", Encoded(<<"8", ".", "f">>, 4, FolderMd5, <<"F">>)
                     \o InfoMarker \o <<"S">>)
\* Another delivery without markers, with an info suffix.
FileG == File("new", <<"8", ".", "g">> \o InfoMarker)
\* The name of FileB without its Seen flag, in new.
FileH == File("new", Encoded(<<"8", ".", "b">>, 2, FolderMd5, <<>>))

Mailboxes ==
    { {},
      {FileA, FileB},
      {FileC, FileE},
      {FileD, FileE, FileG},
      {FileB, FileH},
      {FileF, FileA} }

FlagSets == SUBSET {"F", "S"}

\* int(time.time()) during the run.
Clock == {10}

\* The timestamp of the message's Date header, when the folder uses it.
MessageDates == {None}

\* Uids the caller passes besides those of the message list.
FreshUids == {-1, 0, 5}

(***************************************************************************)
(* State.                                                                  *)
(*   disk, messagelist, timehash, timelock : the folder, self.messagelist  *)
(*       and the two module globals;                                       *)
(*   pc, sv    : where the worker is inside savemessage, and its locals;   *)
(*   last, pre : the call in progress or last finished (arguments, result, *)
(*       what it did) and the message list, disk and status folder when it *)
(*       began;                                                            *)
(*   prev      : the call before it;                                       *)
(*   nops, next: calls issued by the worker, changes made by others;       *)
(*   tpc, tloc, returned : the threads inside _gettimeseq, their locals    *)
(*       and the pairs their calls have returned;                          *)
(*   scanned   : the arguments and the listing of the last _scanfolder;     *)
(*   statusfolder : the flags by uid of the status folder that             *)
(*       quickchanged is given;                                            *)
(*   codec     : a file name handed to _parse_filename and what it gave.   *)
(***************************************************************************)
VARIABLES disk, messagelist, timehash, timelock, pc, sv, last, prev, pre,
          nops, next, tpc, tloc, returned, scanned, statusfolder, codec

folderVars == <<disk, messagelist>>

threadVars == <<timelock, tpc, tloc, returned>>

argVars == <<scanned, statusfolder, codec>>

vars == <<disk, messagelist, timehash, timelock, pc, sv, last, prev, pre,
          nops, next, tpc, tloc, returned, scanned, statusfolder, codec>>

NoCall ==
    [op |-> "scan", uid |-> 0, flags |-> {}, new_uid |-> 0,
     result |-> "ok", err |-> "", ret |-> 0, how |-> "",
     renames |-> 0, unlinked |-> {}, attempts |-> 0, failed |-> 0,
     known |-> FALSE, cached |-> {}]

NoSave == [uid |-> 0, flags |-> {}, name |-> <<>>, tries |-> 0]

NoScan == [files |-> <<>>, maxsize |-> None, min_date |-> None,
           min_uid |-> None]

NoCodec == [filename |-> <<>>, how |-> "", decoded |-> FALSE,
            uid |-> 0, flags |-> {},
            parsed |-> [prefix |-> <<>>, uid |-> None, fmd5 |-> None,
                        flags |-> {}]]

Call(op, uid, flags, new_uid) ==
    [NoCall EXCEPT !.op = op, !.uid = uid, !.flags = flags,
                   !.new_uid = new_uid,
                   !.known = uid \in DOMAIN messagelist,
                   !.cached = IF uid \in DOMAIN messagelist
                              THEN messagelist[uid].flags ELSE {}]

Begin == /\ pre' = [ml |-> messagelist, disk |-> disk, status |-> statusfolder]
         /\ prev' = last
         /\ nops' = nops + 1

(***************************************************************************)
(* MaildirFolder.savemessageflags.  renameok is the outcome the operating  *)
(* system gives os.rename when the source file exists.                     *)
(***************************************************************************)
\* Variant: the two directories exchanged.
TargetDirSwapped(flags) == IF "S" \in flags THEN "new" ELSE "cur"

TargetDir(flags) == IF "S" \in flags THEN "cur" ELSE "new"

FlagsChanged(flags, cached) == flags # cached

\* filename[:-len(infomatch.group())] when the info string is found.
StripInfo(filename) ==
    LET infomatch == FlagSearch(filename)
    IN  IF infomatch.found
        THEN SubSeq(filename, 1, Len(filename) - Len(infomatch.group))
        ELSE filename

InfoStr(flags) == InfoMarker \o SortedFlags(flags)

NewFilename(ml, uid, flags) ==
    LET filename == ml[uid].filename[2]
    IN  <<TargetDir(flags),
          IF FlagsChanged(flags, ml[uid].flags)
          THEN StripInfo(filename) \o InfoStr(flags)
          ELSE filename>>

\* Variant: rename whether or not the path changes.
MustRenameAlways(newfilename, oldfilename) == TRUE

MustRename(newfilename, oldfilename) == newfilename # oldfilename

SaveMessageFlags(ml, d, uid, flags, renameok) ==
    LET oldfilename == ml[uid].filename
        newfilename == NewFilename(ml, uid, flags)
    IN  IF MustRename(newfilename, oldfilename)
        THEN IF oldfilename \in DOMAIN d /\ renameok
             THEN [ml |-> [ml EXCEPT ![uid] = [flags |-> flags,
                                               filename |-> newfilename]],
                   disk |-> Renamed(d, oldfilename, newfilename),
                   raised |-> FALSE, renames |-> 1]
             ELSE [ml |-> ml, disk |-> d, raised |-> TRUE, renames |-> 0]
        ELSE [ml |-> ml, disk |-> d, raised |-> FALSE, renames |-> 0]

\* set_flags(uid, flags): a call of savemessageflags by the synchronizer.
SetFlags(uid, flags) ==
    /\ pc = "idle"
    /\ nops < MaxOps
    /\ Begin
    /\ \E renameok \in BOOLEAN :
         IF uid \notin DOMAIN messagelist
         THEN /\ last' = [Call("set_flags", uid, flags, 0) EXCEPT
                            !.result = "error", !.err = "AssertionError"]
              /\ UNCHANGED folderVars
         ELSE LET r == SaveMessageFlags(messagelist, disk, uid, flags, renameok)
              IN  /\ messagelist' = r.ml
                  /\ disk' = r.disk
                  /\ last' = [Call("set_flags", uid, flags, 0) EXCEPT
                                !.result = IF r.raised THEN "error" ELSE "ok",
                                !.err = IF r.raised THEN "OfflineImapError"
                                                    ELSE "",
                                !.failed = IF r.raised THEN 1 ELSE 0,
                                !.renames = r.renames]
    /\ UNCHANGED <<timehash, pc, sv, next, threadVars, argVars>>

(***************************************************************************)
(* MaildirFolder.change_message_uid.                                       *)
(***************************************************************************)
ChangeUid(uid, new_uid) ==
    /\ pc = "idle"
    /\ nops < MaxOps
    /\ Begin
    /\ \E now \in Clock, renameok \in BOOLEAN :
         IF uid \notin DOMAIN messagelist
         THEN /\ last' = [Call("change_uid", uid, {}, new_uid) EXCEPT
                            !.result = "error", !.err = "OfflineImapError"]
              /\ UNCHANGED <<folderVars, timehash>>
         ELSE IF uid = new_uid
         THEN /\ last' = Call("change_uid", uid, {}, new_uid)
              /\ UNCHANGED <<folderVars, timehash>>
         ELSE LET oldfilename == messagelist[uid].filename
                  flags == messagelist[uid].flags
                  newfilename ==
                      <<oldfilename[1],
                        NewMessageFilename(new_uid, flags, now,
                                           TimeSeqNext(timehash, now))>>
              IN  /\ TimeSeqNext(timehash, now) <= MaxSeq
                  /\ timehash' = TimeSeqStore(timehash, now)
                  /\ IF oldfilename \in DOMAIN disk /\ renameok
                     THEN /\ disk' = Renamed(disk, oldfilename, newfilename)
                          /\ messagelist' =
                               Drop(Put(messagelist, new_uid,
                                        [flags |-> flags,
                                         filename |-> newfilename]), uid)
                          /\ last' = [Call("change_uid", uid, {}, new_uid)
                                        EXCEPT !.renames = 1]
                     ELSE /\ last' = [Call("change_uid", uid, {}, new_uid)
                                        EXCEPT !.result = "error",
                                               !.err = "OSError",
                                               !.failed = 1]
                          /\ UNCHANGED folderVars
    /\ UNCHANGED <<pc, sv, next, threadVars, argVars>>

(***************************************************************************)
(* MaildirFolder.deletemessage.  unlinkok and retryok are the outcomes the *)
(* operating system gives the two os.unlink calls when the file exists.    *)
(***************************************************************************)
\* Variant: the entry is never removed.
DelEntryKept(ml, uid) == ml

\* "del (self.messagelist[uid])".
DelEntry(ml, uid) == Drop(ml, uid)

DeleteMessage(uid) ==
    /\ pc = "idle"
    /\ nops < MaxOps
    /\ Begin
    /\ \E unlinkok \in BOOLEAN, retryok \in BOOLEAN,
          files \in IF uid \in DOMAIN messagelist THEN Listings(disk)
                                                 ELSE {<<>>} :
         IF uid \notin DOMAIN messagelist
         THEN /\ last' = [Call("delete", uid, {}, 0) EXCEPT
                            !.result = "error", !.err = "KeyError"]
              /\ UNCHANGED folderVars
         ELSE LET filepath == messagelist[uid].filename
                  newmsglist == ScanFolder(disk, files, GetMaxSize, None, None)
              IN  IF filepath \in DOMAIN disk /\ unlinkok
                  THEN /\ disk' = Drop(disk, filepath)
                       /\ messagelist' = DelEntry(messagelist, uid)
                       /\ last' = [Call("delete", uid, {}, 0) EXCEPT
                                     !.how = "unlinked",
                                     !.unlinked = {filepath}]
                  ELSE IF uid \notin DOMAIN newmsglist
                  THEN /\ disk' = disk
                       /\ messagelist' = DelEntry(messagelist, uid)
                       /\ last' = [Call("delete", uid, {}, 0) EXCEPT
                                     !.how = "rescan: not found",
                                     !.failed = 1]
                  ELSE IF retryok
                  THEN /\ disk' = Drop(disk, newmsglist[uid].filename)
                       /\ messagelist' = DelEntry(messagelist, uid)
                       /\ last' = [Call("delete", uid, {}, 0) EXCEPT
                                     !.how = "rescan: unlinked",
                                     !.failed = 1,
                                     !.unlinked = {newmsglist[uid].filename}]
                  ELSE /\ last' = [Call("delete", uid, {}, 0) EXCEPT
                                     !.how = "rescan: unlink failed",
                                     !.failed = 2,
                                     !.result = "error", !.err = "OSError"]
                       /\ UNCHANGED folderVars
    /\ UNCHANGED <<timehash, pc, sv, next, threadVars, argVars>>

(***************************************************************************)
(* MaildirFolder.savemessage and save_to_tmp_file, one action per step:    *)
(* the call up to the file name, each pass of the open loop, the write,    *)
(* and the entry in the message list with the move out of tmp.             *)
(***************************************************************************)
\* Variant: only uids below -1 are refused.
SaveRefusedBelowMinusOne(uid) == uid < -1

\* Variant: the message list is never consulted.
AlreadyHaveNever(ml, uid) == FALSE

\* "if uid < 0: return uid".
SaveRefused(uid) == uid < 0

\* "if uid in self.messagelist".
AlreadyHave(ml, uid) == uid \in DOMAIN ml

\* The attributes of an OSError instance: what hasattr(e, ...) can find.
OSErrorAttributes ==
    {"args", "errno", "strerror", "filename", "filename2",
     "characters_written", "with_traceback"}

HasAttr(attr) == attr \in OSErrorAttributes

\* "tries = 7".
Tries == 7

SaveBegin(uid, flags, date) ==
    /\ pc = "idle"
    /\ nops < MaxOps
    /\ Begin
    /\ \E now \in Clock, renameok \in BOOLEAN :
         IF SaveRefused(uid)
         THEN /\ last' = [Call("save", uid, flags, 0) EXCEPT
                            !.ret = uid, !.how = "refused"]
              /\ UNCHANGED <<folderVars, timehash, pc, sv>>
         ELSE IF AlreadyHave(messagelist, uid)
         THEN LET r == SaveMessageFlags(messagelist, disk, uid, flags, renameok)
              IN  /\ messagelist' = r.ml
                  /\ disk' = r.disk
                  /\ last' = [Call("save", uid, flags, 0) EXCEPT
                                !.how = "flags only",
                                !.result = IF r.raised THEN "error" ELSE "ok",
                                !.err = IF r.raised THEN "OfflineImapError"
                                                    ELSE "",
                                !.failed = IF r.raised THEN 1 ELSE 0,
                                !.ret = IF r.raised THEN 0 ELSE uid,
                                !.renames = r.renames]
                  /\ UNCHANGED <<timehash, pc, sv>>
         ELSE LET timeval == IF date.some THEN date.val ELSE now
                  timeseq == TimeSeqNext(timehash, timeval)
              IN  /\ timeseq <= MaxSeq
                  /\ timehash' = TimeSeqStore(timehash, timeval)
                  /\ sv' = [uid |-> uid, flags |-> flags, tries |-> Tries,
                            name |-> NewMessageFilename(uid, flags, timeval,
                                                        timeseq)]
                  /\ pc' = "open"
                  /\ last' = [Call("save", uid, flags, 0) EXCEPT
                                !.how = "new", !.result = "running"]
                  /\ UNCHANGED folderVars
    /\ UNCHANGED <<next, threadVars, argVars>>

\* One pass of "while tries:".  openok is the outcome of os.open when the
\* name is free; when the name exists O_EXCL makes it fail with EEXIST.
SaveOpen ==
    /\ pc = "open"
    /\ \E openok \in BOOLEAN :
         LET tmpname == <<"tmp", sv.name>>
             tries == sv.tries - 1
             eexist == tmpname \in DOMAIN disk
             tried == [last EXCEPT !.attempts = last.attempts + 1]
             fails == [tried EXCEPT !.failed = last.failed + 1]
         IN  IF ~eexist /\ openok
             THEN /\ disk' = Put(disk, tmpname, [size |-> 0, written |-> FALSE])
                  /\ sv' = [sv EXCEPT !.tries = tries]
                  /\ pc' = "write"
                  /\ last' = tried
             ELSE IF ~HasAttr("EEXIST")
             THEN /\ pc' = "idle"
                  /\ last' = [fails EXCEPT
                                !.result = "error", !.err = "OSError",
                                !.how = IF eexist THEN "collision" ELSE "new"]
                  /\ UNCHANGED <<disk, sv>>
             ELSE IF eexist /\ tries # 0
             THEN /\ sv' = [sv EXCEPT !.tries = tries]
                  /\ last' = [fails EXCEPT !.how = "collision"]
                  /\ UNCHANGED <<disk, pc>>
             ELSE /\ pc' = "idle"
                  /\ last' = [fails EXCEPT
                                !.result = "error",
                                !.err = IF eexist
                                        THEN "OfflineImapError: Unique filename already exists"
                                        ELSE "OSError",
                                !.how = IF eexist THEN "collision" ELSE "new"]
                  /\ UNCHANGED <<disk, sv>>
    /\ UNCHANGED <<messagelist, timehash, prev, pre, nops, next, threadVars, argVars>>

\* fd.write, fd.flush, os.fsync, fd.close.
SaveWrite ==
    /\ pc = "write"
    /\ \E writeok \in BOOLEAN :
         IF writeok
         THEN /\ disk' = [disk EXCEPT ![<<"tmp", sv.name>>] = SmallFile]
              /\ pc' = "commit"
              /\ last' = last
         ELSE /\ pc' = "idle"
              /\ last' = [last EXCEPT !.result = "error", !.err = "OSError",
                                      !.failed = last.failed + 1]
              /\ disk' = disk
    /\ UNCHANGED <<messagelist, timehash, sv, prev, pre, nops, next, threadVars, argVars>>

\* The message list entry under tmp, then savemessageflags.
SaveCommit ==
    /\ pc = "commit"
    /\ \E renameok \in BOOLEAN :
         LET tmpname == <<"tmp", sv.name>>
             listed == Put(messagelist, sv.uid,
                           [flags |-> sv.flags, filename |-> tmpname])
             r == SaveMessageFlags(listed, disk, sv.uid, sv.flags, renameok)
         IN  /\ messagelist' = r.ml
             /\ disk' = r.disk
             /\ last' = [last EXCEPT
                           !.result = IF r.raised THEN "error" ELSE "ok",
                           !.err = IF r.raised THEN "OfflineImapError" ELSE "",
                           !.failed = IF r.raised THEN 1 ELSE 0,
                           !.ret = IF r.raised THEN 0 ELSE sv.uid,
                           !.renames = r.renames]
    /\ pc' = "idle"
    /\ UNCHANGED <<timehash, sv, prev, pre, nops, next, threadVars, argVars>>

(***************************************************************************)
(* MaildirFolder.cachemessagelist: the scan that fills the message list,   *)
(* which the synchronizer calls before anything else.                      *)
(***************************************************************************)
CacheMessageList ==
    /\ pc = "start"
    /\ messagelist = EmptyMap
    /\ \E files \in Listings(disk) :
         messagelist' = ScanFolder(disk, files, GetMaxSize, None, None)
    /\ pc' = "idle"
    /\ pre' = [ml |-> messagelist', disk |-> disk, status |-> statusfolder]
    /\ UNCHANGED <<disk, timehash, sv, last, prev, nops, next, threadVars, argVars>>

(***************************************************************************)
(* Other programs working on the same Maildir.                             *)
(***************************************************************************)
\* Changes made by other programs during the run.
MaxExternal == 1

\* A mail reader or another delivery removes a message file.
ExternalUnlink ==
    /\ pc = "idle"
    /\ next < MaxExternal
    /\ \E p \in DOMAIN disk :
         /\ p[1] # "tmp"
         /\ disk' = Drop(disk, p)
    /\ next' = next + 1
    /\ UNCHANGED <<messagelist, timehash, pc, sv, last, prev, pre, nops, threadVars, argVars>>

\* Another process stages a file under the name this save is about to open.
ExternalStage ==
    /\ pc = "open"
    /\ <<"tmp", sv.name>> \notin DOMAIN disk
    /\ next < MaxExternal
    /\ disk' = Put(disk, <<"tmp", sv.name>>, SmallFile)
    /\ next' = next + 1
    /\ UNCHANGED <<messagelist, timehash, pc, sv, last, prev, pre, nops, threadVars, argVars>>

(***************************************************************************)
(* _gettimeseq called by several threads, one action per statement.        *)
(* timelock holds the name of the thread that acquired it, or Free.        *)
(***************************************************************************)
Threads == {"t1", "t2"}

Free == "free"

\* The explicit timestamps the threads pass.
ThreadDates == {10, 11}

NoLocals == [date |-> 0, tmp |-> 0, ret |-> <<0, 0>>, calls |-> 0]

\* Variant: acquire() never blocks.
CanAcquireAlways(lock) == TRUE

\* timelock.acquire() returns only when no thread holds the lock.
CanAcquire(lock) == lock = Free

GoTo(t, label) == tpc' = [tpc EXCEPT ![t] = label]

workerVars == <<disk, messagelist, pc, sv, last, prev, pre, nops, next>>

TCall(t, date) ==
    /\ tpc[t] = "idle"
    /\ tloc[t].calls < MaxCalls
    /\ tloc' = [tloc EXCEPT ![t].date = date]
    /\ GoTo(t, "acquire")
    /\ UNCHANGED <<timehash, timelock, returned, workerVars, argVars>>

TAcquire(t) ==
    /\ tpc[t] = "acquire"
    /\ CanAcquire(timelock)
    /\ timelock' = t
    /\ GoTo(t, "test")
    /\ UNCHANGED <<timehash, tloc, returned, workerVars, argVars>>

\* "if date in timehash".
TTest(t) ==
    /\ tpc[t] = "test"
    /\ GoTo(t, IF tloc[t].date \in DOMAIN timehash THEN "load" ELSE "init")
    /\ UNCHANGED <<timehash, timelock, tloc, returned, workerVars, argVars>>

\* "timehash[date] += 1": the read ...
TLoad(t) ==
    /\ tpc[t] = "load"
    /\ tloc' = [tloc EXCEPT ![t].tmp = timehash[tloc[t].date]]
    /\ GoTo(t, "store")
    /\ UNCHANGED <<timehash, timelock, returned, workerVars, argVars>>

\* ... and the write.
TStore(t) ==
    /\ tpc[t] = "store"
    /\ timehash' = Put(timehash, tloc[t].date, tloc[t].tmp + 1)
    /\ GoTo(t, "result")
    /\ UNCHANGED <<timelock, tloc, returned, workerVars, argVars>>

\* "timehash[date] = 0".
TInit(t) ==
    /\ tpc[t] = "init"
    /\ timehash' = Put(timehash, tloc[t].date, 0)
    /\ GoTo(t, "result")
    /\ UNCHANGED <<timelock, tloc, returned, workerVars, argVars>>

\* "return date, timehash[date]": the value is computed inside the try.
TResult(t) ==
    /\ tpc[t] = "result"
    /\ tloc' = [tloc EXCEPT ![t].ret = <<tloc[t].date, timehash[tloc[t].date]>>]
    /\ GoTo(t, "release")
    /\ UNCHANGED <<timehash, timelock, returned, workerVars, argVars>>

\* "finally: timelock.release()".
TRelease(t) ==
    /\ tpc[t] = "release"
    /\ timelock' = Free
    /\ GoTo(t, "return")
    /\ UNCHANGED <<timehash, tloc, returned, workerVars, argVars>>

\* The caller receives the pair.
TReturn(t) ==
    /\ tpc[t] = "return"
    /\ returned' = returned \cup
                     {[thread |-> t, call |-> tloc[t].calls + 1,
                       date |-> tloc[t].ret[1], seq |-> tloc[t].ret[2]]}
    /\ tloc' = [tloc EXCEPT ![t].calls = tloc[t].calls + 1]
    /\ GoTo(t, "idle")
    /\ UNCHANGED <<timehash, timelock, workerVars, argVars>>

(***************************************************************************)
(* Scans with the maxsize option and the min_date / min_uid arguments, and *)
(* MaildirFolder.quickchanged against the status folder.                   *)
(***************************************************************************)
\* An old delivery that already carries uid 6.
FileI == File("new", Encoded(<<"5", ".", "i">>, 6, FolderMd5, <<>>))
\* An old, seen message with uid 1.
FileJ == File("cur", Encoded(<<"5", ".", "j">>, 1, FolderMd5, <<"S">>))
\* A hidden entry.
FileK == File("new", <<".">> \o Encoded(<<"8", ".", "k">>, 7, FolderMd5, <<>>))
\* A large message.
FileL == File("cur", Encoded(<<"8", ".", "l">>, 8, FolderMd5, <<"R", "S">>))
\* A fingerprint that only begins with the folder's.
FileM == File("new", Encoded(<<"8", ".", "m">>, 6, FolderMd5 \o <<"a">>,
                             <<"F">>))
\* An old delivery without markers.
FileN == File("new", <<"5", ".", "n">>)
\* A second old message carrying uid 6, as a copy made by a mail reader.
FileO == File("cur", Encoded(<<"5", ".", "o">>, 6, FolderMd5, <<"S">>))

BigFile == [size |-> 2, written |-> TRUE]

FileOf(p) == IF p = FileL THEN BigFile ELSE SmallFile

ScanMailboxes ==
    { {FileA, FileB, FileI},
      {FileA, FileL, FileI},
      {FileI, FileD},
      {FileJ, FileB, FileI},
      {FileK, FileA, FileD},
      {FileL, FileG, FileD},
      {FileM, FileE, FileC},
      {FileN, FileC, FileI, FileD},
      {FileF, FileN, FileG},
      {FileI, FileO, FileB} }

\* The maxsize option of the folder: unset, or one unit.
MaxSizes == {None, Some(1)}

\* time.mktime(min_date) and min_uid as the synchronizer passes them.
MinDates == {None, Some(7)}

MinUids == {None, Some(2)}

\* cachemessagelist(min_date, min_uid) on a folder whose option is maxsize.
Scan(maxsize, min_date, min_uid) ==
    /\ pc = "start"
    /\ messagelist = EmptyMap
    /\ \E files \in Listings(disk) :
         /\ messagelist' = ScanFolder(disk, files, maxsize, min_date, min_uid)
         /\ scanned' = [files |-> files, maxsize |-> maxsize,
                        min_date |-> min_date, min_uid |-> min_uid]
    /\ pc' = "scanned"
    /\ pre' = [ml |-> messagelist', disk |-> disk, status |-> statusfolder]
    /\ UNCHANGED <<disk, timehash, sv, last, prev, nops, next, threadVars,
                   statusfolder, codec>>

\* The status folders a sync can meet: what an earlier pass recorded for
\* this message list, less one message, plus one message, or with one
\* message's flags different.
ToggleSeen(flags) == IF "S" \in flags THEN flags \ {"S"} ELSE flags \cup {"S"}

FlagsOf(ml) == [uid \in DOMAIN ml |-> ml[uid].flags]

Snapshots(ml) ==
    {FlagsOf(ml), Put(FlagsOf(ml), 9, {})} \cup
    {Drop(FlagsOf(ml), u) : u \in DOMAIN ml} \cup
    {[FlagsOf(ml) EXCEPT ![u] = ToggleSeen(@)] : u \in DOMAIN ml} \cup
    {Put(Drop(FlagsOf(ml), u), 9, ml[u].flags) : u \in DOMAIN ml}

\* The status folder of the sync, loaded before the folders are compared.
StatusLoaded ==
    /\ pc = "scanned"
    /\ statusfolder' \in Snapshots(messagelist)
    /\ pc' = "idle"
    /\ UNCHANGED <<disk, messagelist, timehash, sv, last, prev, pre, nops,
                   next, threadVars, scanned, codec>>

\* Variant: only the uids are compared.
QuickChangedUidsOnly(ml, status) == DOMAIN ml # DOMAIN status

\* The value quickchanged returns.
QuickChangedResult(ml, status) ==
    IF DOMAIN ml # DOMAIN status
    THEN TRUE
    ELSE \E uid \in DOMAIN ml : ml[uid].flags # status[uid]

QuickChanged ==
    /\ pc = "idle"
    /\ nops < MaxOps
    /\ Begin
    /\ last' = [NoCall EXCEPT
                  !.op = "quickchanged",
                  !.how = IF QuickChangedResult(messagelist, statusfolder)
                          THEN "True" ELSE "False"]
    /\ UNCHANGED <<folderVars, timehash, pc, sv, next, threadVars, argVars>>

(***************************************************************************)
(* The file name codec on its own: new_message_filename for a message, or  *)
(* a name read from a directory, then _parse_filename.                     *)
(***************************************************************************)
\* The standard Maildir flags and two custom lower-case ones.
FlagLetters == {"D", "F", "R", "S", "T", "a", "z"}

\* Uids handed to new_message_filename.
EncodeUids == {-1, 0, 1, 10, 4095}

\* Timestamps _gettimeseq returns with their sequence numbers.
EncodeTimes == {0, 1234567890}

EncodeSeqs == {0, 1}

\* Names os.listdir can return.
FoundNames == {p[2] : p \in UNION (Mailboxes \cup ScanMailboxes)}

Encode(uid, flags, timeval, timeseq) ==
    /\ codec.how = ""
    /\ codec' = [NoCodec EXCEPT
                   !.how = "encoded", !.uid = uid, !.flags = flags,
                   !.filename = NewMessageFilename(uid, flags, timeval,
                                                   timeseq)]
    /\ UNCHANGED <<timehash, workerVars, threadVars, scanned, statusfolder>>

Found(name) ==
    /\ codec.how = ""
    /\ codec' = [NoCodec EXCEPT !.how = "found", !.filename = name]
    /\ UNCHANGED <<timehash, workerVars, threadVars, scanned, statusfolder>>

Decode ==
    /\ codec.how # ""
    /\ ~codec.decoded
    /\ codec' = [codec EXCEPT !.decoded = TRUE,
                              !.parsed = ParseFilename(codec.filename)]
    /\ UNCHANGED <<timehash, workerVars, threadVars, scanned, statusfolder>>

(***************************************************************************)
(* The process dies inside savemessage and is started again: the message   *)
(* list is gone, the Maildir is as the dead process left it, and the new   *)
(* process begins with cachemessagelist.  It draws its file names from     *)
(* where the old one stopped (another pid, a later clock).                 *)
(***************************************************************************)
Crash ==
    /\ pc \in {"open", "write", "commit"}
    /\ next < MaxExternal
    /\ pc' = "start"
    /\ messagelist' = EmptyMap
    /\ sv' = NoSave
    /\ last' = [last EXCEPT !.result = "crashed"]
    /\ next' = next + 1
    /\ UNCHANGED <<disk, timehash, prev, pre, nops, threadVars, argVars>>

(***************************************************************************)
(* Specifications.                                                         *)
(*   Spec    : one worker on one folder, nothing else touches the Maildir. *)
(*   SpecExt : the same worker while other programs change the Maildir.    *)
(*   SpecSeq : threads of the process calling _gettimeseq concurrently.    *)
(*   SpecScan: one scan with options and filters, then quickchanged.       *)
(*   SpecCodec: the file name codec applied to names and messages.         *)
(*   SpecCrash: the worker of Spec, whose process can die during a save.   *)
(***************************************************************************)
Init ==
    /\ disk \in {[p \in m |-> SmallFile] : m \in Mailboxes}
    /\ messagelist = EmptyMap
    /\ timehash = EmptyMap
    /\ timelock = Free
    /\ pc = "start"
    /\ sv = NoSave
    /\ last = NoCall
    /\ prev = NoCall
    /\ pre = [ml |-> EmptyMap, disk |-> disk, status |-> EmptyMap]
    /\ nops = 0
    /\ next = 0
    /\ tpc = [t \in Threads |-> "idle"]
    /\ tloc = [t \in Threads |-> NoLocals]
    /\ returned = {}
    /\ scanned = NoScan
    /\ statusfolder = EmptyMap
    /\ codec = NoCodec

Worker ==
    \/ CacheMessageList
    \/ \E uid \in DOMAIN messagelist \cup FreshUids, flags \in FlagSets,
          date \in MessageDates : SaveBegin(uid, flags, date)
    \/ SaveOpen
    \/ SaveWrite
    \/ SaveCommit
    \/ \E uid \in DOMAIN messagelist \cup {5}, flags \in FlagSets :
          SetFlags(uid, flags)
    \/ \E uid \in DOMAIN messagelist \cup {5},
          new_uid \in DOMAIN messagelist \cup {5} : ChangeUid(uid, new_uid)
    \/ \E uid \in DOMAIN messagelist \cup {5} : DeleteMessage(uid)

Next == Worker

Spec == Init /\ [][Next]_vars

\* The Maildirs the runs with other programs start from.
MailboxesExt == {{}, {FileA, FileB}}

InitExt ==
    /\ Init
    /\ DOMAIN disk \in MailboxesExt

NextExt == Worker \/ ExternalUnlink \/ ExternalStage

SpecExt == InitExt /\ [][NextExt]_vars

InitSeq ==
    /\ disk = EmptyMap
    /\ messagelist = EmptyMap
    /\ timehash = EmptyMap
    /\ timelock = Free
    /\ pc = "idle"
    /\ sv = NoSave
    /\ last = NoCall
    /\ prev = NoCall
    /\ pre = [ml |-> EmptyMap, disk |-> EmptyMap, status |-> EmptyMap]
    /\ nops = 0
    /\ next = 0
    /\ tpc = [t \in Threads |-> "idle"]
    /\ tloc = [t \in Threads |-> NoLocals]
    /\ returned = {}
    /\ scanned = NoScan
    /\ statusfolder = EmptyMap
    /\ codec = NoCodec

NextSeq ==
    \E t \in Threads :
       \/ \E date \in ThreadDates : TCall(t, date)
       \/ TAcquire(t)
       \/ TTest(t)
       \/ TLoad(t)
       \/ TStore(t)
       \/ TInit(t)
       \/ TResult(t)
       \/ TRelease(t)
       \/ TReturn(t)

SpecSeq == InitSeq /\ [][NextSeq]_vars

InitScan ==
    /\ disk \in {[p \in m |-> FileOf(p)] : m \in ScanMailboxes}
    /\ messagelist = EmptyMap
    /\ timehash = EmptyMap
    /\ timelock = Free
    /\ pc = "start"
    /\ sv = NoSave
    /\ last = NoCall
    /\ prev = NoCall
    /\ pre = [ml |-> EmptyMap, disk |-> disk, status |-> EmptyMap]
    /\ nops = 0
    /\ next = 0
    /\ tpc = [t \in Threads |-> "idle"]
    /\ tloc = [t \in Threads |-> NoLocals]
    /\ returned = {}
    /\ scanned = NoScan
    /\ statusfolder = EmptyMap
    /\ codec = NoCodec

NextScan ==
    \/ \E maxsize \in MaxSizes, min_date \in MinDates, min_uid \in MinUids :
          Scan(maxsize, min_date, min_uid)
    \/ StatusLoaded
    \/ QuickChanged

SpecScan == InitScan /\ [][NextScan]_vars

NextCrash == Worker \/ Crash

SpecCrash == InitExt /\ [][NextCrash]_vars

NextCodec ==
    \/ \E uid \in EncodeUids, flags \in SUBSET FlagLetters,
          timeval \in EncodeTimes, timeseq \in EncodeSeqs :
          Encode(uid, flags, timeval, timeseq)
    \/ \E name \in FoundNames : Found(name)
    \/ Decode

SpecCodec == InitSeq /\ [][NextCodec]_vars

(***************************************************************************)
(* Claims.                                                                 *)
(***************************************************************************)
Idle == pc = "idle"

Finished(op) == Idle /\ nops > 0 /\ last.op = op /\ last.result # "running"

Succeeded(op) == Finished(op) /\ last.result = "ok"

Failed(op) == Finished(op) /\ last.result = "error"

FilesIn(d, dirannex) == {p \in DOMAIN d : p[1] = dirannex}

\* C1: with a single worker and no other program touching the Maildir,
\* after any sequence of save, set_flags, change_uid and delete calls,
\* each succeeding or failing, the filename of every record of the message
\* list is the path of a file that exists on disk.
C1_CacheOnDisk ==
    \A uid \in DOMAIN messagelist : messagelist[uid].filename \in DOMAIN disk

\* The directory a message with these flags belongs in.
DirFor(flags) == IF "S" \in flags THEN "cur" ELSE "new"

CallsOf(d) == {x \in returned : x.date = d}

SeqsOf(d) == {x.seq : x \in CallsOf(d)}

\* Threads that drew a sequence number for d and have not returned yet,
\* and the numbers they drew.
Drawn(d) ==
    {t \in Threads : /\ tpc[t] \in {"result", "release", "return"}
                     /\ tloc[t].date = d}

DrawnSeqs(d) ==
    {IF tpc[t] = "result" THEN timehash[d] ELSE tloc[t].ret[2] : t \in Drawn(d)}

NoPairTwice ==
    \A a, b \in returned : (a.date = b.date /\ a.seq = b.seq) => a = b

\* C2 as stated: under every interleaving of concurrent calls of _gettimeseq
\* with the same explicit timestamp no two calls return the same pair, and
\* once n calls for that timestamp have returned, the sequences returned are
\* exactly 0 .. n-1.
C2_Original ==
    /\ NoPairTwice
    /\ \A d \in ThreadDates : SeqsOf(d) = 0..(Cardinality(CallsOf(d)) - 1)

\* C2 as amended: no two calls return the same pair; the sequences returned
\* and those drawn by calls that have not returned yet are together exactly
\* 0 .. m-1, so that once n calls for a timestamp have returned and no call
\* for it is between drawing its number and returning, the sequences
\* returned are exactly 0 .. n-1.
C2_UniqueContiguous ==
    /\ NoPairTwice
    /\ \A d \in ThreadDates :
         /\ Cardinality(SeqsOf(d) \cup DrawnSeqs(d)) =
               Cardinality(CallsOf(d)) + Cardinality(Drawn(d))
         /\ SeqsOf(d) \cup DrawnSeqs(d) =
               0..(Cardinality(CallsOf(d)) + Cardinality(Drawn(d)) - 1)
         /\ Drawn(d) = {} => SeqsOf(d) = 0..(Cardinality(CallsOf(d)) - 1)

C2_Witness ==
    \E d \in ThreadDates :
       /\ Drawn(d) = {}
       /\ \E a, b \in CallsOf(d) : a.thread # b.thread
       /\ Cardinality(CallsOf(d)) >= 3

\* C3: when a staging exclusive-create attempt of save fails because the
\* name already exists, it is retried within a budget of 7 attempts, and
\* only when every attempt of the budget collides does save fail, with the
\* "unique filename already exists" error.
C3_Original ==
    (Failed("save") /\ last.how = "collision") =>
        /\ last.attempts = Tries
        /\ last.err = "OfflineImapError: Unique filename already exists"

\* C4 as stated: for every uid <= 0, zero included, save returns uid
\* unchanged, creates no file and leaves the message list unchanged.
C4_Original ==
    (nops > 0 /\ last.op = "save" /\ last.uid <= 0) =>
        /\ Idle
        /\ last.result = "ok"
        /\ last.ret = last.uid
        /\ disk = pre.disk
        /\ messagelist = pre.ml

\* C4 as amended: for every uid < 0 save returns uid unchanged, creates no
\* file and leaves the message list unchanged; uid 0 is saved like a
\* positive uid.
C4_NegativeRefused ==
    /\ (nops > 0 /\ last.op = "save" /\ last.uid < 0) =>
          /\ Idle
          /\ last.result = "ok"
          /\ last.ret = last.uid
          /\ disk = pre.disk
          /\ messagelist = pre.ml
    /\ (Succeeded("save") /\ last.uid = 0) =>
          /\ 0 \in DOMAIN messagelist
          /\ messagelist[0].filename \in DOMAIN disk

C4_Witness ==
    /\ Succeeded("save")
    /\ last.uid < 0
    /\ last.known
    /\ last.flags # last.cached

\* C5: for every uid of the message list and every flag set F, after
\* set_flags(uid, F) returns successfully the cached flags of uid equal F,
\* the cached path is under cur if F contains S and under new otherwise,
\* the file exists at the cached path and no longer at the old path if the
\* path changed.
C5_Original ==
    Succeeded("set_flags") =>
        LET rec == messagelist[last.uid]
            old == pre.ml[last.uid].filename
        IN  /\ rec.flags = last.flags
            /\ rec.filename[1] = DirFor(last.flags)
            /\ rec.filename \in DOMAIN disk
            /\ rec.filename # old => old \notin DOMAIN disk

\* C6 as stated: set_flags(uid, F) with F equal to the cached flags of uid
\* performs no filesystem operation and leaves the message list unchanged,
\* whatever state a scan or earlier operations produced.
C6_Original ==
    (Finished("set_flags") /\ last.known /\ last.flags = last.cached) =>
        /\ last.result = "ok"
        /\ last.renames = 0
        /\ last.failed = 0
        /\ messagelist = pre.ml
        /\ disk = pre.disk

\* C6 as amended: set_flags(uid, F) with F equal to the cached flags
\* performs no filesystem operation and leaves the message list unchanged
\* when the cached path is already in the directory F calls for (cur with
\* S, new without); otherwise it renames the file into that directory under
\* the same name and records the new path, or fails leaving all unchanged.
C6_SameFlags ==
    (Finished("set_flags") /\ last.known /\ last.flags = last.cached) =>
        LET old == pre.ml[last.uid].filename
            moved == <<DirFor(last.flags), old[2]>>
        IN  IF old[1] = DirFor(last.flags)
            THEN /\ last.result = "ok"
                 /\ last.renames = 0
                 /\ last.failed = 0
                 /\ messagelist = pre.ml
                 /\ disk = pre.disk
            ELSE /\ last.result = "ok" =>
                      /\ last.renames = 1
                      /\ messagelist =
                            [pre.ml EXCEPT ![last.uid].filename = moved]
                      /\ old \notin DOMAIN disk
                      /\ moved \in DOMAIN disk
                 /\ last.result = "error" =>
                      /\ messagelist = pre.ml
                      /\ disk = pre.disk

C6_Witness ==
    /\ Succeeded("set_flags")
    /\ last.known
    /\ last.flags = last.cached
    /\ last.flags # {}
    /\ pre.ml[last.uid].filename[1] = DirFor(last.flags)

\* C7: for a uid of the message list and a flag set F different from the
\* cached flags, two consecutive successful calls set_flags(uid, F) perform
\* exactly one rename in the first call and none in the second, and the
\* message list and the disk after the second call equal those after the
\* first.
C7_Original ==
    (/\ Succeeded("set_flags")
     /\ nops >= 2
     /\ prev.op = "set_flags" /\ prev.result = "ok"
     /\ prev.uid = last.uid /\ prev.flags = last.flags
     /\ prev.flags # prev.cached) =>
        /\ prev.renames = 1
        /\ last.renames = 0
        /\ messagelist = pre.ml
        /\ disk = pre.disk

\* C8: for a uid > 0 absent from the message list, when every filesystem
\* operation succeeds, save(uid, content, F) returns uid, the message list
\* holds a record for uid with flags F whose path is under cur if F
\* contains S and under new otherwise, the completely written file exists
\* at that path, and no file of the message remains in tmp.
C8_SaveNew ==
    (/\ Idle /\ nops > 0 /\ last.op = "save"
     /\ last.uid > 0 /\ ~last.known /\ last.failed = 0) =>
        /\ last.result = "ok"
        /\ last.ret = last.uid
        /\ last.uid \in DOMAIN messagelist
        /\ messagelist[last.uid].flags = last.flags
        /\ messagelist[last.uid].filename = <<DirFor(last.flags), sv.name>>
        /\ messagelist[last.uid].filename \in DOMAIN disk
        /\ disk[messagelist[last.uid].filename].written
        /\ FilesIn(disk, "tmp") = FilesIn(pre.disk, "tmp")
        /\ DOMAIN messagelist = DOMAIN pre.ml \cup {last.uid}

C8_Witness ==
    /\ Succeeded("save")
    /\ last.uid > 0
    /\ ~last.known
    /\ "S" \in last.flags
    /\ pre.ml # EmptyMap

\* What set_flags(uid, F) can leave from the state the call began in.
AsSetFlagsWould ==
    \E renameok \in BOOLEAN :
       LET r == SaveMessageFlags(pre.ml, pre.disk, last.uid, last.flags,
                                 renameok)
       IN  messagelist = r.ml /\ disk = r.disk

\* C9 as stated: save(uid, content, F) for a uid > 0 already in the message
\* list only updates flags: it creates no new file (the number of files in
\* tmp, new and cur is unchanged), adds no record, and leaves the record of
\* uid exactly as set_flags(uid, F) would.
C9_Original ==
    (nops > 0 /\ last.op = "save" /\ last.uid > 0 /\ last.known) =>
        /\ Idle
        /\ Cardinality(DOMAIN disk) = Cardinality(DOMAIN pre.disk)
        /\ DOMAIN messagelist = DOMAIN pre.ml
        /\ AsSetFlagsWould

\* C9 as amended: save(uid, content, F) for a uid > 0 already in the
\* message list only updates flags: it creates no new file (no path exists
\* afterwards that did not exist before, except the one the message was
\* renamed to; the number of files is unchanged, or one less when the
\* rename replaced a file that already had the new name), adds no record,
\* and leaves the record of uid exactly as set_flags(uid, F) would.
C9_FlagsOnly ==
    (nops > 0 /\ last.op = "save" /\ last.uid > 0 /\ last.known) =>
        LET new == messagelist[last.uid].filename
            replaced == last.renames = 1 /\ new \in DOMAIN pre.disk
        IN  /\ Idle
            /\ last.uid \in DOMAIN messagelist
            /\ DOMAIN disk \subseteq DOMAIN pre.disk \cup {new}
            /\ FilesIn(disk, "tmp") \subseteq FilesIn(pre.disk, "tmp")
            /\ Cardinality(DOMAIN disk) =
                  Cardinality(DOMAIN pre.disk) - (IF replaced THEN 1 ELSE 0)
            /\ DOMAIN messagelist = DOMAIN pre.ml
            /\ AsSetFlagsWould

C9_Witness ==
    /\ Succeeded("save")
    /\ last.uid > 0
    /\ last.known
    /\ last.renames = 1
    /\ messagelist[last.uid].filename \in DOMAIN pre.disk

\* C10 as stated: whenever delete(uid) is called for a uid of the message
\* list, the list has no entry for uid once the call ends, whatever the
\* outcome of the unlink attempts.
C10_Original ==
    (Finished("delete") /\ last.known) => last.uid \notin DOMAIN messagelist

\* C10 as amended: whenever delete(uid) is called for a uid of the message
\* list, the list has no entry for uid once the call returns (first unlink
\* succeeded; or it failed and the re-scan did not find uid; or the retried
\* unlink succeeded); when the retried unlink fails the error is raised and
\* the entry stays, message list and disk being as before the call.
C10_EntryRemoved ==
    (Finished("delete") /\ last.known) =>
        /\ last.result = "ok" =>
              /\ last.uid \notin DOMAIN messagelist
              /\ DOMAIN messagelist = DOMAIN pre.ml \ {last.uid}
        /\ last.result = "error" =>
              /\ last.how = "rescan: unlink failed"
              /\ messagelist = pre.ml
              /\ disk = pre.disk

C10_Witness ==
    /\ Succeeded("delete")
    /\ last.known
    /\ last.how = "rescan: not found"
    /\ last.uid \notin DOMAIN messagelist

ValueAfter(name, marker, allowed) ==
    LET i == IndexOf(name, marker)
        from == i + Len(marker)
        ends == {j \in from..(Len(name) + 1) :
                    j = Len(name) + 1 \/ name[j] \notin allowed}
    IN  SubSeq(name, from, (CHOOSE j \in ends : \A k \in ends : j <= k) - 1)

HasMarker(name, marker) == IndexOf(name, marker) # 0

\* The value of the FMD5 marker is the store's fingerprint, exactly.
Attributable(name) ==
    /\ HasMarker(name, Fmd5Marker)
    /\ ValueAfter(name, Fmd5Marker, WordSet) = FolderMd5

HasUidMarker(name) ==
    /\ HasMarker(name, UidMarker)
    /\ ValueAfter(name, UidMarker, DigitSet) # <<>>

MarkedUid(name) == StrToInt(ValueAfter(name, UidMarker, DigitSet))

MarkedFlags(name) ==
    IF HasMarker(name, InfoMarker)
    THEN Range(ValueAfter(name, InfoMarker, WordSet))
    ELSE {}

\* The entries a scan considers: not hidden, not above the maximum size.
Eligible(p) ==
    /\ ~(Len(p[2]) > 0 /\ p[2][1] = ".")
    /\ ~(scanned.maxsize.some /\ disk[p].size > scanned.maxsize.val)

\* The uids under which the message list records the file at path p.
RecordedAs(p) == {u \in DOMAIN messagelist : messagelist[u].filename = p}

Unfiltered == ~scanned.min_date.some /\ ~scanned.min_uid.some

\* C12: for every filename, decoding yields an unresolved UID when the name
\* carries no FMD5 marker and when the value of its FMD5 marker is not
\* exactly the store's fingerprint, even with a valid ,U=<digits> marker; a
\* scan gives such a file a synthetic negative UID, while a file with U=n
\* and the store's fingerprint is decoded and scanned as UID n with the
\* flags of its flags marker.
C12_Original ==
    pc # "start" =>
      \A p \in DOMAIN disk :
        LET name == p[2]
            parsed == ParseFilename(name)
        IN  /\ ~Attributable(name) =>
                 /\ ~parsed.uid.some
                 /\ \A u \in RecordedAs(p) : u < 0
                 /\ (Eligible(p) /\ Unfiltered) => RecordedAs(p) # {}
            /\ (Attributable(name) /\ HasUidMarker(name)) =>
                 /\ parsed.uid = Some(MarkedUid(name))
                 /\ parsed.flags = MarkedFlags(name)
                 /\ \A u \in RecordedAs(p) :
                       /\ u = MarkedUid(name)
                       /\ messagelist[u].flags = MarkedFlags(name)

\* C13: round trip: for every uid > 0, every prefix and every flag set F
\* over the letters D, F, R, S, T and lower-case letters, decoding the file
\* name produced for (uid, F, prefix) yields flag set F and UID uid.
C13_RoundTrip ==
    (codec.how = "encoded" /\ codec.decoded /\ codec.uid > 0) =>
        /\ codec.parsed.uid = Some(codec.uid)
        /\ codec.parsed.flags = codec.flags

C13_Witness ==
    /\ codec.how = "encoded"
    /\ codec.decoded
    /\ codec.uid > 9
    /\ Cardinality(codec.flags) >= 3
    /\ codec.parsed.uid = Some(codec.uid)
    /\ codec.parsed.flags = codec.flags

\* C14: for uid in the message list and new_uid # uid, a successful
\* change_uid(uid, new_uid) leaves no entry under uid and an entry under
\* new_uid with the same flags and the same subdirectory as the old entry
\* and a filename whose UID segment is new_uid; the file exists at the new
\* path and no longer at the old one.  change_uid(uid, uid) for a uid of the
\* list changes neither message list nor disk.
C14_ChangeUid ==
    /\ (Succeeded("change_uid") /\ last.known /\ last.new_uid # last.uid) =>
          /\ last.uid \notin DOMAIN messagelist
          /\ last.new_uid \in DOMAIN messagelist
          /\ LET old == pre.ml[last.uid]
                 rec == messagelist[last.new_uid]
             IN  /\ rec.flags = old.flags
                 /\ rec.filename[1] = old.filename[1]
                 /\ ValueAfter(rec.filename[2], UidMarker,
                               DigitSet \cup {"-"}) = IntToStr(last.new_uid)
                 /\ rec.filename \in DOMAIN disk
                 /\ old.filename \notin DOMAIN disk
                 /\ disk[rec.filename] = pre.disk[old.filename]
    /\ (Finished("change_uid") /\ last.known /\ last.new_uid = last.uid) =>
          /\ last.result = "ok"
          /\ messagelist = pre.ml
          /\ disk = pre.disk

C14_Witness ==
    /\ Succeeded("change_uid")
    /\ last.known
    /\ last.uid > 0
    /\ last.new_uid = 5
    /\ last.renames = 1
    /\ pre.ml[last.uid].flags # {}

\* C15: quickchanged returns False exactly when the message list and the
\* status folder have the same set of uids and, for every one of them, equal
\* flag sets; it returns True in every other case, and it modifies neither
\* the message list nor the status folder nor the disk.
C15_QuickChanged ==
    Finished("quickchanged") =>
        /\ last.how \in {"True", "False"}
        /\ last.how = "False" <=>
              /\ DOMAIN messagelist = DOMAIN statusfolder
              /\ \A uid \in DOMAIN messagelist :
                    messagelist[uid].flags = statusfolder[uid]
        /\ messagelist = pre.ml
        /\ statusfolder = pre.status
        /\ disk = pre.disk

C15_Witness ==
    /\ Finished("quickchanged")
    /\ last.how = "True"
    /\ DOMAIN messagelist = DOMAIN statusfolder
    /\ Cardinality(DOMAIN messagelist) >= 2

\* C16: delete(uid) never unlinks the file of another message: after
\* delete(uid) ends, for positive and for synthetic uids, and also when the
\* re-scan-and-retry path is taken, the file of every other record of the
\* message list still exists on disk.
C16_Original ==
    (Finished("delete") /\ last.known) =>
        \A u \in DOMAIN pre.ml \ {last.uid} :
           /\ u \in DOMAIN messagelist
           /\ messagelist[u] = pre.ml[u]
           /\ pre.ml[u].filename \in DOMAIN pre.disk =>
                 pre.ml[u].filename \in DOMAIN disk

\* C17: if the rename inside set_flags(uid, F) fails, the operation ends
\* with an error, the record of uid (flags and filename) is exactly what it
\* was before the call, the file is still at the old path, no other record
\* changes, and the message list does not name a path for uid at which no
\* file exists.
C17_Original ==
    (Finished("set_flags") /\ last.known /\ last.failed > 0) =>
        /\ last.result = "error"
        /\ messagelist = pre.ml
        /\ disk = pre.disk
        /\ pre.ml[last.uid].filename \in DOMAIN disk
        /\ messagelist[last.uid].filename \in DOMAIN disk

\* What the scan's filters do with the entry at path p, read off the file
\* name and the arguments of the scan.  A negative number stands for any
\* synthetic uid.
UidOf(p) ==
    LET uid == ParseFilename(p[2]).uid
    IN  IF uid.some THEN uid.val ELSE -1

Floored(p) ==
    /\ scanned.min_uid.some
    /\ UidOf(p) > 0
    /\ UidOf(p) < scanned.min_uid.val

SetAside(p) ==
    /\ Eligible(p)
    /\ ~Floored(p)
    /\ scanned.min_date.some
    /\ ~IsWithinTime(p[2], scanned.min_date.val)

Retained(p) == Eligible(p) /\ ~Floored(p) /\ ~SetAside(p)

RetainedPositive ==
    {UidOf(p) : p \in {q \in DOMAIN disk : Retained(q) /\ UidOf(q) > 0}}

Position(p) == CHOOSE i \in DOMAIN scanned.files : scanned.files[i] = p

\* The side set holds one message per uid: of several set-aside entries
\* with the same uid, the one listed last.
InSideSet(p) ==
    /\ SetAside(p)
    /\ \A q \in DOMAIN disk :
          (SetAside(q) /\ q # p /\ UidOf(p) > 0 /\ UidOf(q) = UidOf(p)) =>
              Position(q) < Position(p)

Unresolved == {p \in DOMAIN disk : Eligible(p) /\ UidOf(p) < 0}

MatchesNoPattern(name) ==
    /\ ~HasMarker(name, UidMarker)
    /\ ~HasMarker(name, Fmd5Marker)
    /\ ~HasMarker(name, InfoMarker)

\* C19: in a scan without min_date and min_uid, every entry of new and cur
\* that is not dot-prefixed, not above the maximum size and whose uid is
\* unresolved is in the result under its own synthetic uid; for k such
\* entries these uids are exactly -1, -2, ..., -k, and an entry matching
\* none of the filename patterns has an empty flag set.
C19_SyntheticUids ==
    (pc # "start" /\ Unfiltered) =>
        /\ \A p \in Unresolved :
              /\ Cardinality(RecordedAs(p)) = 1
              /\ \A u \in RecordedAs(p) :
                    /\ u < 0
                    /\ MatchesNoPattern(p[2]) => messagelist[u].flags = {}
        /\ \A p, q \in Unresolved :
              p # q => RecordedAs(p) \cap RecordedAs(q) = {}
        /\ {u \in DOMAIN messagelist : u < 0} =
              {-i : i \in 1..Cardinality(Unresolved)}
        /\ \A u \in DOMAIN messagelist :
              u < 0 => messagelist[u].filename \in Unresolved

C19_Witness ==
    /\ pc # "start"
    /\ Unfiltered
    /\ Cardinality(Unresolved) >= 2
    /\ \E p \in DOMAIN disk : ~Eligible(p)
    /\ \E p \in Unresolved : MatchesNoPattern(p[2])
    /\ {u \in DOMAIN messagelist : u < 0} = {-1, -2}

\* C20: during save of a new message, the message's file is never present
\* in new or cur before its content has been completely written: at every
\* intermediate step, and after a crash at any step, the file is either
\* absent or in tmp, and a scan, which lists only new and cur, never returns
\* a record for a file in tmp.
C20_StagedInvisible ==
    /\ \A p \in DOMAIN disk : p[1] \in {"new", "cur"} => disk[p].written
    /\ \A p \in DOMAIN disk : ~disk[p].written => p[1] = "tmp"
    /\ pc \in {"open", "write", "commit"} =>
          /\ <<"new", sv.name>> \notin DOMAIN disk
          /\ <<"cur", sv.name>> \notin DOMAIN disk
          /\ \A u \in DOMAIN messagelist : messagelist[u].filename[2] # sv.name
    /\ (pc = "idle" /\ last.result = "crashed") =>
          \A u \in DOMAIN messagelist :
             /\ messagelist[u].filename[1] \in {"new", "cur"}
             /\ messagelist[u].filename \in DOMAIN disk
             /\ disk[messagelist[u].filename].written

C20_Witness ==
    /\ pc = "idle"
    /\ last.result = "crashed"
    /\ messagelist # EmptyMap
    /\ \E p \in DOMAIN disk : p[1] = "tmp" /\ ~disk[p].written

\* Every record with a positive uid decodes from its own file name, and some
\* unfiltered scan of the Maildir d returns the record as the list ml has it.
Faithful(ml, d) ==
    \A uid \in {u \in DOMAIN ml : u > 0} :
       LET parsed == ParseFilename(ml[uid].filename[2])
       IN  /\ parsed.uid = Some(uid)
           /\ parsed.flags = ml[uid].flags
           /\ \E files \in Listings(d) :
                LET fresh == ScanFolder(d, files, GetMaxSize, None, None)
                IN  uid \in DOMAIN fresh /\ fresh[uid] = ml[uid]

\* C21: for every cache record with a positive uid, decoding the base name
\* of its cached filename yields that same uid and that same flag set; this
\* holds after a scan of any mailbox content and is preserved by every
\* successful save, set_flags and change_uid, so that a fresh unfiltered
\* scan would reproduce the cached uid, flags and path of each such record.
C21_Original ==
    [][(/\ pc' = "idle"
        /\ last'.result = "ok"
        /\ \/ pc = "start"
           \/ /\ last'.op \in {"save", "set_flags", "change_uid"}
              /\ nops' = nops + 1 \/ pc = "commit"
              /\ Faithful(messagelist, disk)) =>
           Faithful(messagelist', disk')]_vars

\* C22: change_uid(uid, new_uid) with uid present and new_uid # uid never
\* makes a message other than the one under uid lose its cache record: the
\* number of cache records is the same before and after the call, also
\* when new_uid is already a key of the cache.
C22_Original ==
    (Finished("change_uid") /\ last.known /\ last.uid # last.new_uid) =>
        /\ Cardinality(DOMAIN messagelist) = Cardinality(DOMAIN pre.ml)
        /\ \A u \in DOMAIN pre.ml \ {last.uid} :
              \E v \in DOMAIN messagelist :
                 messagelist[v].filename = pre.ml[u].filename

\* C23: a scan without min_date and min_uid returns exactly one record per
\* eligible entry (not dot-prefixed, not above the maximum size) of new and
\* cur: two distinct files never collapse into one record, so the number of
\* records equals the number of eligible files, also when several files
\* carry the same U=<n> with the store's fingerprint.
C23_Original ==
    (pc # "start" /\ Unfiltered) =>
        /\ Cardinality(DOMAIN messagelist) =
              Cardinality({p \in DOMAIN disk : Eligible(p)})
        /\ \A p \in DOMAIN disk :
              Cardinality(RecordedAs(p)) = IF Eligible(p) THEN 1 ELSE 0

=============================================================================
